---- MODULE Spec2Model ----
(***************************************************************************)
(* A model of github_exporter (src/main.go): one refresh cycle             *)
(* (updateGitHubMetrics) with its errgroup fan-out, the collectors, the    *)
(* metric registry, and the generate / serve drivers of main.              *)
(***************************************************************************)
EXTENDS Integers, Sequences, FiniteSets, TLC

(***************************************************************************)
(* Bounds of the model.                                                    *)
(***************************************************************************)
\* Largest number of repositories the source serves.
MaxRepos == 2
\* Page size of the repository listing (the code asks for 100 per page).
ReposPerPage == 1
\* Page size of the run listing (the code asks for 100 per page).
RunsPerPage == 3
\* Largest value of --pushgateway-retries tried.
MaxRetries == 3
\* Number of refresh cycles the serve loop is followed for.
MaxCycles == 2

(***************************************************************************)
(* Errors.  An error wrapped by the orchestrator carries the label of the  *)
(* wrapping fmt.Errorf, the repository (workflow tasks only) and the cause *)
(* returned by the failed call.                                            *)
(***************************************************************************)
Nil == [label |-> "nil", repo |-> "", cause |-> ""]
Pending == [label |-> "pending", repo |-> "", cause |-> ""]
Wrap(label, repo, cause) == [label |-> label, repo |-> repo, cause |-> cause]

(***************************************************************************)
(* The data source.                                                        *)
(***************************************************************************)
AllRepoNames == <<"o/a", "o/b", "o/c", "o/d", "o/e">>
RepoName(i) == AllRepoNames[i]
RepoNames == {RepoName(i) : i \in 1..MaxRepos}

TopTasks == {"notifications", "issue", "repos"}
NestedTasks == {"count"} \cup RepoNames
Tasks == TopTasks \cup NestedTasks

Min(a, b) == IF a < b THEN a ELSE b

\* Number of pages the source splits a listing of n entries into.
NumPages(n, per) == IF n = 0 THEN 1 ELSE (n + per - 1) \div per

\* ListByAuthenticatedUser: page p of the listing, and resp.NextPage.
PageOf(listing, per, p) ==
    SubSeq(listing, (p - 1) * per + 1, Min(p * per, Len(listing)))
NextPageOf(listing, per, p) == IF p * per < Len(listing) THEN p + 1 ELSE 0

\* A call made with context ctx: a cancelled context fails the call, otherwise
\* the source decides.
Call(ctxCancelled, sourceFails) ==
    IF ctxCancelled THEN "context canceled"
    ELSE IF sourceFails THEN "fetch failed"
    ELSE "ok"

(***************************************************************************)
(* The metric registry (the sink): a set of samples, one per (metric,      *)
(* label values) key.  Label values are in the order of the GaugeVec's     *)
(* declared label names.                                                   *)
(***************************************************************************)
Sample(metric, labels, value) ==
    [metric |-> metric, labels |-> labels, value |-> value]

\* A gauge vector that is reset whenever one of its gauges is set.
GaugeSetAfterReset(s, smp) ==
    {x \in s : x.metric # smp.metric} \cup {smp}

\* GaugeVec.With(labels).Set(value): last write wins per key.
GaugeSet(s, smp) ==
    {x \in s : ~(x.metric = smp.metric /\ x.labels = smp.labels)} \cup {smp}

RECURSIVE SetAll(_, _)
SetAll(s, samples) ==
    IF samples = <<>> THEN s
    ELSE SetAll(GaugeSet(s, Head(samples)), Tail(samples))

(***************************************************************************)
(* updateNotificationsMetrics: the samples written for a listing.          *)
(***************************************************************************)
UnreadCount(notifications) ==
    Cardinality({i \in DOMAIN notifications : notifications[i]})

\* A collector that sets the gauge without its label.
NotificationSamplesUnlabelled(notifications) ==
    <<Sample("github_notification_count", <<>>, UnreadCount(notifications))>>

NotificationSamples(notifications) ==
    <<Sample("github_notification_count", <<"true">>, UnreadCount(notifications))>>

(***************************************************************************)
(* updateIssueMetrics: the four samples of one node of the response.       *)
(***************************************************************************)
\* A collector that writes only the open counts of a node.
IssueNodeSamplesOpenOnly(node) ==
    << Sample("github_issue_count", <<node.nameWithOwner, "issue", "open">>, node.openIssues),
       Sample("github_issue_count", <<node.nameWithOwner, "pull", "open">>, node.openPulls) >>

IssueNodeSamples(node) ==
    << Sample("github_issue_count", <<node.nameWithOwner, "issue", "open">>, node.openIssues),
       Sample("github_issue_count", <<node.nameWithOwner, "issue", "closed">>, node.closedIssues),
       Sample("github_issue_count", <<node.nameWithOwner, "pull", "open">>, node.openPulls),
       Sample("github_issue_count", <<node.nameWithOwner, "pull", "closed">>, node.closedPulls) >>

RECURSIVE IssueSamples(_)
IssueSamples(nodes) ==
    IF nodes = <<>> THEN <<>>
    ELSE IssueNodeSamples(Head(nodes)) \o IssueSamples(Tail(nodes))

(***************************************************************************)
(* updateRepoCountMetrics.                                                 *)
(***************************************************************************)
Visibility(repo) == IF repo.private THEN "private" ELSE "public"
ArchivedLabel(repo) == IF repo.archived THEN "true" ELSE "false"
Owner(repo) == "o"

RepoCountOf(repos, key) ==
    Cardinality({i \in DOMAIN repos :
        <<Owner(repos[i]), Visibility(repos[i]), ArchivedLabel(repos[i])>> = key})

\* The label combinations repoCounts can hold.  The code ranges over the map
\* in no fixed order; the keys are distinct, so the registry after the writes
\* is the same for every order, and one order stands for all.
RepoCountKeys ==
    << <<"o", "public", "false">>, <<"o", "public", "true">>,
       <<"o", "private", "false">>, <<"o", "private", "true">> >>

RECURSIVE RepoCountSamplesOf(_, _)
RepoCountSamplesOf(repos, keys) ==
    IF keys = <<>> THEN <<>>
    ELSE (IF RepoCountOf(repos, Head(keys)) > 0
          THEN <<Sample("github_repo_count", Head(keys), RepoCountOf(repos, Head(keys)))>>
          ELSE <<>>)
         \o RepoCountSamplesOf(repos, Tail(keys))

RepoCountSamples(repos) == RepoCountSamplesOf(repos, RepoCountKeys)

(***************************************************************************)
(* updateWorkflowRunMetrics.                                               *)
(***************************************************************************)
Conclusions ==
    << "action_required", "cancelled", "failure", "neutral", "skipped",
       "stale", "startup_failure", "success", "timed_out" >>

\* A scan in which a run of the same number replaces the retained one.
ReplacesOnTie(run, latest) ==
    run.workflowID \notin DOMAIN latest
    \/ run.runNumber >= latest[run.workflowID].runNumber

\* A scan in which every run replaces the retained one.
ReplacesAlways(run, latest) == TRUE

\* The scan of runs.WorkflowRuns building latestRuns (a map keyed by workflow
\* id): a run replaces the retained one only if its number is greater.
Replaces(run, latest) ==
    run.workflowID \notin DOMAIN latest
    \/ run.runNumber > latest[run.workflowID].runNumber

RECURSIVE ScanRuns(_, _)
ScanRuns(latest, runs) ==
    IF runs = <<>> THEN latest
    ELSE LET run == Head(runs)
         IN  ScanRuns(IF Replaces(run, latest)
                      THEN (run.workflowID :> run) @@ latest
                      ELSE latest,
                      Tail(runs))

EmptyMap == [k \in {} |-> 0]
LatestRuns(runs) == ScanRuns(EmptyMap, runs)

\* The one-hot value with the comparison inverted.
ConclusionValueInverted(conclusion, latestRun) ==
    IF conclusion # latestRun.conclusion THEN 1 ELSE 0

ConclusionValue(conclusion, latestRun) ==
    IF conclusion = latestRun.conclusion THEN 1 ELSE 0

\* The samples written for one listed workflow that has a retained run.
WorkflowSamples(fullName, workflow, latestRun) ==
    <<Sample("github_workflow_run_number", <<fullName, workflow.name>>, latestRun.runNumber)>>
    \o [i \in 1..Len(Conclusions) |->
          Sample("github_workflow_run_conclusion",
                 <<fullName, workflow.name, Conclusions[i]>>,
                 ConclusionValue(Conclusions[i], latestRun))]

\* A collector that writes zeros for a workflow without a retained run.
NoRun == [workflowID |-> 0, runNumber |-> 0, conclusion |-> ""]
RECURSIVE WorkflowRunSamplesWithZeros(_, _, _)
WorkflowRunSamplesWithZeros(fullName, workflows, latest) ==
    IF workflows = <<>> THEN <<>>
    ELSE LET workflow == Head(workflows)
         IN  WorkflowSamples(fullName, workflow,
                             IF workflow.id \in DOMAIN latest THEN latest[workflow.id]
                             ELSE NoRun)
             \o WorkflowRunSamplesWithZeros(fullName, Tail(workflows), latest)

RECURSIVE WorkflowRunSamples(_, _, _)
WorkflowRunSamples(fullName, workflows, latest) ==
    IF workflows = <<>> THEN <<>>
    ELSE LET workflow == Head(workflows)
         IN  (IF workflow.id \in DOMAIN latest
              THEN WorkflowSamples(fullName, workflow, latest[workflow.id])
              ELSE <<>>)
             \o WorkflowRunSamples(fullName, Tail(workflows), latest)

\* ListRepositoryWorkflowRuns is called once: the response holds the first
\* page of the completed runs.
ListedRuns(runs) == PageOf(runs, RunsPerPage, 1)

(***************************************************************************)
(* State.                                                                  *)
(***************************************************************************)
VARIABLES
    src,          \* the source: its data and which calls it fails, this cycle
    sink,         \* the registry
    orch,         \* updateGitHubMetrics: "idle", "running", "completed", "failed"
    result,       \* the error updateGitHubMetrics returned
    g,            \* the top-level errgroup: its first error, its context
    repoGroup,    \* the nested errgroup
    pc,           \* each task's position
    ret,          \* each task's returned error (Pending until it returns)
    page,         \* fetchUserRepos: opts.Page
    allRepos,     \* fetchUserRepos: allRepos
    repos,        \* updateGitHubMetrics: repos, once fetchUserRepos returned
    latestRuns,   \* updateWorkflowRunMetrics: latestRuns, per repository task
    written,      \* the samples each task's invocation has written, in order
    firstFailed,  \* history: the errors of the tasks that returned an error first
    mainPc,       \* main: its position
    args,         \* main: the parsed arguments
    pushI,        \* main: the push loop's i
    pushErr,      \* main: the push loop's err
    pushes,       \* the outcomes of the push attempts made, in order
    outputs,      \* where the metrics have been written
    cycles,       \* refresh cycles started
    logged,       \* error lines main has logged
    ticker        \* the channel of time.Tick: "none" until created, "empty", "full"

vars == << src, sink, orch, result, g, repoGroup, pc, ret, page, allRepos, repos,
           latestRuns, written, firstFailed, mainPc, args, pushI, pushErr,
           pushes, outputs, cycles, logged, ticker >>

cycleVars == << orch, result, g, repoGroup, pc, ret, page, allRepos, repos,
                latestRuns, written, firstFailed >>
mainVars == << mainPc, args, pushI, pushErr, pushes, outputs, cycles, logged,
              ticker >>

NewGroup == [err |-> Nil, cancelled |-> FALSE]

\* A group that keeps the last error instead of the first.
GoReturnLast(grp, err) ==
    IF err # Nil THEN [err |-> err, cancelled |-> TRUE] ELSE grp

\* errgroup.Group.Go: when the function returns, the first non-nil error of
\* the group is kept and the group's context is cancelled.
GoReturn(grp, err) ==
    IF err # Nil /\ grp.err = Nil
    THEN [err |-> err, cancelled |-> TRUE]
    ELSE grp

\* The context of the nested group derives from the top-level group's.
RepoCtxCancelled == g.cancelled \/ repoGroup.cancelled

Finished(t) == pc[t] \in {"none", "done"}

\* A Wait that returns as soon as one task has failed.
WaitReturnsOnFirstError(tasks) ==
    \/ \A t \in tasks : pc[t] \in {"none", "done"}
    \/ \E t \in tasks : pc[t] = "done" /\ ret[t] # Nil

\* errgroup.Group.Wait: blocks until every function passed to Go returned.
WaitReturns(tasks) == \A t \in tasks : Finished(t)

\* History: the first error returned by any task, by a top-level task, by a
\* nested task.
First(first, err) == IF first = Nil THEN err ELSE first
NoneFailed == [any |-> Nil, top |-> Nil, nested |-> Nil]

\* What a returning task records.
Return(t, err) ==
    /\ pc' = [pc EXCEPT ![t] = "done"]
    /\ ret' = [ret EXCEPT ![t] = err]
    /\ firstFailed' =
         [any |-> First(firstFailed.any, err),
          top |-> IF t \in TopTasks THEN First(firstFailed.top, err) ELSE firstFailed.top,
          nested |-> IF t \in NestedTasks THEN First(firstFailed.nested, err)
                     ELSE firstFailed.nested]

\* A collector that sets its gauges whether or not its last fetch succeeded.
WrittenRegardless(res, samples) == samples

\* if err != nil { return err } stands before the first Set of a collector:
\* the samples are written only when the last fetch has succeeded.
WrittenOn(res, samples) == IF res = "ok" THEN samples ELSE <<>>

Write(t, samples) ==
    /\ sink' = SetAll(sink, samples)
    /\ written' = [written EXCEPT ![t] = written[t] \o samples]


(***************************************************************************)
(* The sources a cycle can meet.  A source fixes, for the cycle, the data  *)
(* it serves and the calls it fails: failPage is the page of the           *)
(* repository listing it fails (0: none), issueFailAt the call of the      *)
(* Issue/PR collector (1: Users.Get, 2: the GraphQL query, 0: none),       *)
(* wfFailAt[r] the call of r's workflow task (1: the run listing, 2: the   *)
(* workflow listing, 0: none).                                             *)
(***************************************************************************)
ActiveNames(listing) ==
    {listing[i].name : i \in {j \in DOMAIN listing : ~listing[j].archived}}

\* Listings as the source serves them for sort=full_name, direction=asc.
RepoListings(privateFlags) ==
    UNION { { [i \in 1..n |-> [name |-> RepoName(i), archived |-> a[i], private |-> p[i]]] :
                a \in [1..n -> BOOLEAN], p \in [1..n -> privateFlags] } : n \in 0..MaxRepos }

Run(id, number, conclusion) ==
    [workflowID |-> id, runNumber |-> number, conclusion |-> conclusion]
Workflow(id, name) == [id |-> id, name |-> name]

ScenarioRuns == <<Run(1, 2, "success"), Run(1, 5, "failure")>>
ScenarioWorkflows == <<Workflow(1, "CI")>>
ScenarioNotifications == <<TRUE, FALSE, TRUE>>

\* The batched query answers with one node per owned, non-archived repository.
RECURSIVE NodesOf(_)
NodesOf(listing) ==
    IF listing = <<>> THEN <<>>
    ELSE (IF Head(listing).archived THEN <<>>
          ELSE <<[nameWithOwner |-> Head(listing).name, openIssues |-> 3,
                  closedIssues |-> 1, openPulls |-> 0, closedPulls |-> 2]>>)
         \o NodesOf(Tail(listing))

Failures(listing) ==
    { f \in [failPage : 0..NumPages(Len(listing), ReposPerPage), notifFail : BOOLEAN,
             issueFailAt : 0..2, wfFailAt : [RepoNames -> 0..2]] :
        \A r \in RepoNames :
            f.wfFailAt[r] # 0 => (r \in ActiveNames(listing) /\ f.failPage = 0) }

Source(listing, f, runs, workflows) ==
    [repos |-> listing, failPage |-> f.failPage, notifFail |-> f.notifFail,
     issueFailAt |-> f.issueFailAt, wfFailAt |-> f.wfFailAt,
     runs |-> runs, workflows |-> workflows,
     nodes |-> NodesOf(listing), notifications |-> ScenarioNotifications]

CycleSources(listings) ==
    UNION { { Source(l, f, [r \in RepoNames |-> ScenarioRuns],
                     [r \in RepoNames |-> ScenarioWorkflows]) : f \in Failures(l) } :
            l \in listings }

(***************************************************************************)
(* The tasks.  A task is suspended only at its calls to the source, so a   *)
(* step of a task is one call together with the code that follows it up to *)
(* the next call or the return: the writes of a collector belong to the    *)
(* step of its last call.  The keys written by different tasks are         *)
(* disjoint.                                                               *)
(*                                                                         *)
(* updateGitHubMetrics: the call creates the group and starts the three    *)
(* top-level tasks.                                                        *)
(***************************************************************************)
updateGitHubMetrics ==
    /\ orch = "idle"
    /\ mainPc \in {"generate:update", "serve:update"}
    /\ orch' = "running"
    /\ result' = Pending
    /\ g' = NewGroup
    /\ repoGroup' = NewGroup
    /\ pc' = [t \in Tasks |->
                CASE t = "notifications" -> "call"
                  [] t = "issue" -> "user"
                  [] t = "repos" -> "fetch"
                  [] OTHER -> "none"]
    /\ ret' = [t \in Tasks |-> Pending]
    /\ page' = 0
    /\ allRepos' = <<>>
    /\ repos' = <<>>
    /\ latestRuns' = [r \in RepoNames |-> EmptyMap]
    /\ written' = [t \in Tasks |-> <<>>]
    /\ firstFailed' = NoneFailed
    /\ cycles' = cycles + 1
    /\ UNCHANGED << src, sink, mainPc, args, pushI, pushErr, pushes, outputs, logged,
                    ticker >>

\* The first top-level task.
updateNotificationsMetrics ==
    /\ pc["notifications"] = "call"
    /\ LET res == Call(g.cancelled, src.notifFail)
           err == IF res = "ok" THEN Nil ELSE Wrap("notifications metrics", "", res)
       IN  /\ Write("notifications", WrittenOn(res, NotificationSamples(src.notifications)))
           /\ Return("notifications", err)
           /\ g' = GoReturn(g, err)
    /\ UNCHANGED << src, orch, result, repoGroup, page, allRepos, repos, latestRuns >>
    /\ UNCHANGED mainVars

\* The second top-level task: client.Users.Get ...
updateIssueMetrics_GetUser ==
    /\ pc["issue"] = "user"
    /\ LET res == Call(g.cancelled, src.issueFailAt = 1)
           err == Wrap("issue metrics", "", res)
       IN  IF res = "ok"
           THEN /\ pc' = [pc EXCEPT !["issue"] = "query"]
                /\ UNCHANGED << ret, firstFailed, g >>
           ELSE /\ Return("issue", err)
                /\ g' = GoReturn(g, err)
    /\ UNCHANGED << src, sink, written, orch, result, repoGroup, page, allRepos,
                    repos, latestRuns >>
    /\ UNCHANGED mainVars

\* ... then executeGraphQL and the writes.
updateIssueMetrics_Query ==
    /\ pc["issue"] = "query"
    /\ LET res == Call(g.cancelled, src.issueFailAt = 2)
           err == IF res = "ok" THEN Nil ELSE Wrap("issue metrics", "", res)
       IN  /\ Write("issue", WrittenOn(res, IssueSamples(src.nodes)))
           /\ Return("issue", err)
           /\ g' = GoReturn(g, err)
    /\ UNCHANGED << src, orch, result, repoGroup, page, allRepos, repos, latestRuns >>
    /\ UNCHANGED mainVars

NotArchived(repo) == ~repo.archived

\* A fetchUserRepos that puts each page in front of the pages before it.
fetchUserReposTurnPrepending(acc, p, res) ==
    IF res # "ok"
    THEN [done |-> TRUE, repos |-> <<>>, err |-> res, allRepos |-> acc, page |-> p]
    ELSE LET all == PageOf(src.repos, ReposPerPage, p) \o acc
             next == NextPageOf(src.repos, ReposPerPage, p)
         IN  IF next = 0
             THEN [done |-> TRUE, repos |-> all, err |-> "ok", allRepos |-> all, page |-> p]
             ELSE [done |-> FALSE, repos |-> <<>>, err |-> "ok", allRepos |-> all, page |-> next]

\* A fetchUserRepos that leaves the archived repositories out of its list.
fetchUserReposTurnSkippingArchived(acc, p, res) ==
    IF res # "ok"
    THEN [done |-> TRUE, repos |-> <<>>, err |-> res, allRepos |-> acc, page |-> p]
    ELSE LET all == acc \o SelectSeq(PageOf(src.repos, ReposPerPage, p), NotArchived)
             next == NextPageOf(src.repos, ReposPerPage, p)
         IN  IF next = 0
             THEN [done |-> TRUE, repos |-> all, err |-> "ok", allRepos |-> all, page |-> p]
             ELSE [done |-> FALSE, repos |-> <<>>, err |-> "ok", allRepos |-> all, page |-> next]

\* A fetchUserRepos that stops at a failed page and returns the pages it has.
fetchUserReposTurnPartial(acc, p, res) ==
    IF res # "ok"
    THEN [done |-> TRUE, repos |-> acc, err |-> "ok", allRepos |-> acc, page |-> p]
    ELSE LET all == acc \o PageOf(src.repos, ReposPerPage, p)
             next == NextPageOf(src.repos, ReposPerPage, p)
         IN  IF next = 0
             THEN [done |-> TRUE, repos |-> all, err |-> "ok", allRepos |-> all, page |-> p]
             ELSE [done |-> FALSE, repos |-> <<>>, err |-> "ok", allRepos |-> all, page |-> next]

(***************************************************************************)
(* fetchUserRepos: one turn of its loop, given the outcome of the page     *)
(* request.  done says whether the function returns, with (repos, err).    *)
(* Every entry of a page is appended (the source serves no nil entry).     *)
(***************************************************************************)
fetchUserReposTurn(acc, p, res) ==
    IF res # "ok"
    THEN [done |-> TRUE, repos |-> <<>>, err |-> res, allRepos |-> acc, page |-> p]
    ELSE LET all == acc \o PageOf(src.repos, ReposPerPage, p)
             next == NextPageOf(src.repos, ReposPerPage, p)
         IN  IF next = 0
             THEN [done |-> TRUE, repos |-> all, err |-> "ok", allRepos |-> all, page |-> p]
             ELSE [done |-> FALSE, repos |-> <<>>, err |-> "ok", allRepos |-> all, page |-> next]

\* Tasks that all read one loop variable shared by the iterations: every
\* task operates on the last non-archived repository of the list.
WorkflowTaskReposSharingVariable(rs) ==
    LET active == {j \in DOMAIN rs : ~rs[j].archived}
    IN  {rs[i].name : i \in {j \in active : \A k \in active : k <= j}}

\* The repositories the orchestrator starts a workflow task for.
WorkflowTaskRepos(rs) == {rs[i].name : i \in {j \in DOMAIN rs : ~rs[j].archived}}

\* The third top-level task: a page request of fetchUserRepos; when the
\* function returns, the error return or the launch of the nested tasks.
fetchUserRepos ==
    /\ pc["repos"] = "fetch"
    /\ LET p == IF page = 0 THEN 1 ELSE page
           turn == fetchUserReposTurn(allRepos, p, Call(g.cancelled, src.failPage = p))
           err == Wrap("fetching repos", "", turn.err)
       IN  /\ allRepos' = turn.allRepos
           /\ page' = turn.page
           /\ repos' = turn.repos
           /\ IF ~turn.done
              THEN UNCHANGED << pc, ret, firstFailed, g >>
              ELSE IF turn.err # "ok"
              THEN Return("repos", err) /\ g' = GoReturn(g, err)
              ELSE /\ pc' = [t \in Tasks |->
                               IF t = "repos" THEN "wait"
                               ELSE IF t = "count" THEN "call"
                               ELSE IF t \in WorkflowTaskRepos(turn.repos) THEN "runs"
                               ELSE pc[t]]
                   /\ UNCHANGED << ret, firstFailed, g >>
    /\ UNCHANGED << src, sink, written, orch, result, repoGroup, latestRuns >>
    /\ UNCHANGED mainVars

updateRepoCountMetrics ==
    /\ pc["count"] = "call"
    /\ Write("count", RepoCountSamples(repos))
    /\ Return("count", Nil)
    /\ repoGroup' = GoReturn(repoGroup, Nil)
    /\ UNCHANGED << src, orch, result, g, page, allRepos, repos, latestRuns >>
    /\ UNCHANGED mainVars

\* A workflow task: ListRepositoryWorkflowRuns and the scan ...
updateWorkflowRunMetrics_Runs(r) ==
    /\ pc[r] = "runs"
    /\ LET res == Call(RepoCtxCancelled, src.wfFailAt[r] = 1)
           err == Wrap("workflow metrics for", r, res)
       IN  IF res = "ok"
           THEN /\ latestRuns' = [latestRuns EXCEPT ![r] = LatestRuns(ListedRuns(src.runs[r]))]
                /\ pc' = [pc EXCEPT ![r] = "workflows"]
                /\ UNCHANGED << ret, firstFailed, repoGroup >>
           ELSE /\ Return(r, err)
                /\ repoGroup' = GoReturn(repoGroup, err)
                /\ UNCHANGED latestRuns
    /\ UNCHANGED << src, sink, written, orch, result, g, page, allRepos, repos >>
    /\ UNCHANGED mainVars

\* ... then ListWorkflows and the writes.
updateWorkflowRunMetrics_Workflows(r) ==
    /\ pc[r] = "workflows"
    /\ LET res == Call(RepoCtxCancelled, src.wfFailAt[r] = 2)
           err == IF res = "ok" THEN Nil ELSE Wrap("workflow metrics for", r, res)
       IN  /\ Write(r, WrittenOn(res, WorkflowRunSamples(r, src.workflows[r],
                                                         latestRuns[r])))
           /\ Return(r, err)
           /\ repoGroup' = GoReturn(repoGroup, err)
    /\ UNCHANGED << src, orch, result, g, page, allRepos, repos, latestRuns >>
    /\ UNCHANGED mainVars

\* A pipeline that waits for the nested group and drops its error.
RepoGroupResultDropped(grp) == Nil

\* repoGroup.Wait() returns the nested group's first error.
RepoGroupResult(grp) == grp.err

\* return repoGroup.Wait(): the third task returns the nested group's error.
repoGroupWait ==
    /\ pc["repos"] = "wait"
    /\ WaitReturns(NestedTasks)
    /\ Return("repos", RepoGroupResult(repoGroup))
    /\ g' = GoReturn(g, RepoGroupResult(repoGroup))
    /\ repoGroup' = [repoGroup EXCEPT !.cancelled = TRUE]
    /\ UNCHANGED << src, sink, written, orch, result, page, allRepos, repos, latestRuns >>
    /\ UNCHANGED mainVars

\* return g.Wait(): the cycle ends with the group's error.
gWait ==
    /\ orch = "running"
    /\ WaitReturns(TopTasks)
    /\ result' = g.err
    /\ orch' = IF g.err = Nil THEN "completed" ELSE "failed"
    /\ g' = [g EXCEPT !.cancelled = TRUE]
    /\ UNCHANGED << src, sink, written, repoGroup, pc, ret, page, allRepos, repos,
                    latestRuns, firstFailed >>
    /\ UNCHANGED mainVars

\* updateGitHubMetrics has returned and main has not yet taken the result.
Returned == orch \in {"completed", "failed"}

CycleNext ==
    \/ updateGitHubMetrics
    \/ updateNotificationsMetrics
    \/ updateIssueMetrics_GetUser
    \/ updateIssueMetrics_Query
    \/ fetchUserRepos
    \/ updateRepoCountMetrics
    \/ \E r \in RepoNames : updateWorkflowRunMetrics_Runs(r)
    \/ \E r \in RepoNames : updateWorkflowRunMetrics_Workflows(r)
    \/ repoGroupWait
    \/ gWait

NoArgs == [mode |-> "generate", output |-> "", pushgateway |-> FALSE,
           retries |-> 1, tailscale |-> FALSE]

\* The state at the first call of updateGitHubMetrics.
InitAt(position, a, s) ==
    /\ src = s
    /\ sink = {}
    /\ orch = "idle"
    /\ result = Pending
    /\ g = NewGroup
    /\ repoGroup = NewGroup
    /\ pc = [t \in Tasks |-> "none"]
    /\ ret = [t \in Tasks |-> Pending]
    /\ page = 0
    /\ allRepos = <<>>
    /\ repos = <<>>
    /\ latestRuns = [r \in RepoNames |-> EmptyMap]
    /\ written = [t \in Tasks |-> <<>>]
    /\ firstFailed = NoneFailed
    /\ mainPc = position
    /\ args = a
    /\ pushI = 0
    /\ pushErr = FALSE
    /\ pushes = <<>>
    /\ outputs = {}
    /\ cycles = 0
    /\ logged = 0
    /\ ticker = "none"

\* One refresh cycle, for every source.
InitCycle == \E s \in CycleSources(RepoListings({FALSE})) : InitAt("generate:update", NoArgs, s)

SpecCycle == InitCycle /\ [][CycleNext]_vars


(***************************************************************************)
(* The Workflow Collector on its own: the task of one repository, for      *)
(* every run listing and workflow listing within the bounds, from the      *)
(* state of a cycle in which the other collectors have written and the     *)
(* repository's task has just been started.                                *)
(***************************************************************************)
WorkflowIDs == {1, 2}
RunNumbers == {3, 5, 7}
RunConclusions == {"success", "failure"}
Runs == [workflowID : WorkflowIDs, runNumber : RunNumbers, conclusion : RunConclusions]
\* A run the source holds beyond the first page of a listing.
LaterRuns == [workflowID : WorkflowIDs, runNumber : {7}, conclusion : {"success"}]
\* The completed runs of a repository at the source, in the order listed: up
\* to a page of runs, or a full page and one run more.
RunListings(per) ==
    UNION {[1..n -> Runs] : n \in 0..per}
    \cup {first \o <<later>> : first \in [1..per -> Runs], later \in LaterRuns}
\* Two workflows of a repository may carry the same name.
WorkflowListings ==
    { <<Workflow(1, "CI"), Workflow(2, "Lint")>>,
      <<Workflow(1, "CI"), Workflow(2, "CI")>> }

TheRepo == RepoName(1)
OneRepo == <<[name |-> TheRepo, archived |-> FALSE, private |-> FALSE]>>
NoFailures ==
    [failPage |-> 0, notifFail |-> FALSE, issueFailAt |-> 0,
     wfFailAt |-> [r \in RepoNames |-> 0]]

WorkflowSources(runListings) ==
    { Source(OneRepo, NoFailures,
             [r \in RepoNames |-> IF r = TheRepo THEN runs ELSE <<>>],
             [r \in RepoNames |-> IF r = TheRepo THEN workflows ELSE <<>>]) :
        runs \in runListings, workflows \in WorkflowListings }

InitWorkflow ==
    /\ src \in WorkflowSources(RunListings(RunsPerPage))
    /\ sink = SetAll({}, NotificationSamples(src.notifications)
                         \o IssueSamples(src.nodes) \o RepoCountSamples(OneRepo))
    /\ orch = "running"
    /\ result = Pending
    /\ g = NewGroup
    /\ repoGroup = NewGroup
    /\ pc = [t \in Tasks |->
               IF t = "repos" THEN "wait" ELSE IF t = TheRepo THEN "runs"
               ELSE IF t \in RepoNames THEN "none" ELSE "done"]
    /\ ret = [t \in Tasks |->
                IF t \in {"notifications", "issue", "count"} THEN Nil ELSE Pending]
    /\ page = 0
    /\ allRepos = OneRepo
    /\ repos = OneRepo
    /\ latestRuns = [r \in RepoNames |-> EmptyMap]
    /\ written = [t \in Tasks |->
                    CASE t = "notifications" -> NotificationSamples(src.notifications)
                      [] t = "issue" -> IssueSamples(src.nodes)
                      [] t = "count" -> RepoCountSamples(OneRepo)
                      [] OTHER -> <<>>]
    /\ firstFailed = NoneFailed
    /\ mainPc = "generate:update"
    /\ args = NoArgs
    /\ pushI = 0
    /\ pushErr = FALSE
    /\ pushes = <<>>
    /\ outputs = {}
    /\ cycles = 1
    /\ logged = 0
    /\ ticker = "none"

WorkflowNext ==
    \/ \E r \in RepoNames : updateWorkflowRunMetrics_Runs(r)
    \/ \E r \in RepoNames : updateWorkflowRunMetrics_Workflows(r)

SpecWorkflow == InitWorkflow /\ [][WorkflowNext]_vars

(***************************************************************************)
(* main, generate mode: one refresh, then the outputs, then the push.      *)
(***************************************************************************)
\* log.Printf or log.Fatalf of an error, when there is one.
Logged(n, err) == IF err # Nil THEN n + 1 ELSE n

\* A main that goes on to the outputs whatever the cycle returned.
GenerateAfterUpdateAlways(err) == "generate:output"

\* if err := updateGitHubMetrics(...); err != nil { log.Fatalf(...) }
GenerateAfterUpdate(err) == IF err # Nil THEN "fatal" ELSE "generate:output"

\* updateGitHubMetrics has returned to main: a Failed cycle is fatal.
generateUpdated ==
    /\ mainPc = "generate:update"
    /\ Returned
    /\ orch' = "idle"
    /\ mainPc' = GenerateAfterUpdate(result)
    /\ logged' = Logged(logged, result)
    /\ UNCHANGED ticker
    /\ UNCHANGED << src, sink, result, g, repoGroup, pc, ret, page, allRepos, repos,
                    latestRuns, written, firstFailed, args, pushI, pushErr, pushes,
                    outputs, cycles >>

\* With neither an output nor a Pushgateway URL the output is stdout.
OutputOf(a) == IF a.output = "" /\ ~a.pushgateway THEN "-" ELSE a.output

\* writeToStdout or prometheus.WriteToTextfile; a failed write is fatal.
generateOutput ==
    /\ mainPc = "generate:output"
    /\ IF OutputOf(args) = ""
       THEN mainPc' = "generate:push" /\ UNCHANGED outputs
       ELSE \E ok \in BOOLEAN :
              /\ mainPc' = IF ok THEN "generate:push" ELSE "fatal"
              /\ outputs' = IF ~ok THEN outputs
                            ELSE outputs \cup {IF OutputOf(args) = "-" THEN "stdout" ELSE "file"}
    /\ UNCHANGED << src, sink, args, pushI, pushErr, pushes, cycles, logged, ticker >>
    /\ UNCHANGED cycleVars

\* The start of the push: tsServer.Start() when Tailscale is configured, then
\* the pusher and the loop's i := 1.
generatePush ==
    /\ mainPc = "generate:push"
    /\ IF ~args.pushgateway
       THEN mainPc' = "exit" /\ UNCHANGED << pushI, pushErr >>
       ELSE \E started \in (IF args.tailscale THEN BOOLEAN ELSE {TRUE}) :
              /\ mainPc' = IF started THEN "generate:pushloop" ELSE "fatal"
              /\ pushI' = 1
              /\ pushErr' = FALSE
    /\ UNCHANGED << src, sink, args, pushes, outputs, cycles, logged, ticker >>
    /\ UNCHANGED cycleVars

\* The condition of the push loop: for i := 1; i < retries; i++.
PushLoopRuns(i, retries) == i < retries

\* One turn of the push loop (pusher.Push succeeds or fails), or its end: a
\* remaining error is fatal.
generatePushLoop ==
    /\ mainPc = "generate:pushloop"
    /\ IF PushLoopRuns(pushI, args.retries)
       THEN \E ok \in BOOLEAN :
              /\ pushes' = Append(pushes, ok)
              /\ pushErr' = ~ok
              /\ pushI' = IF ok THEN pushI ELSE pushI + 1
              /\ mainPc' = IF ok THEN "exit" ELSE "generate:pushloop"
       ELSE /\ mainPc' = IF pushErr THEN "fatal" ELSE "exit"
            /\ UNCHANGED << pushI, pushErr, pushes >>
    /\ UNCHANGED << src, sink, args, outputs, cycles, logged, ticker >>
    /\ UNCHANGED cycleVars

(***************************************************************************)
(* main, serve mode: the goroutine that refreshes once and then on every   *)
(* tick of time.Tick(interval).                                            *)
(***************************************************************************)
\* A goroutine that gives up after a Failed cycle.
ServeAfterUpdateStops(err) == IF err # Nil THEN "fatal" ELSE "serve:tick"

\* if err != nil { log.Printf(...) }, then the range over the ticker.
ServeAfterUpdate(err) == "serve:tick"

\* A loop that starts the refresh with a go statement and goes on at once.
ServeCallNotAwaited == orch # "idle"

\* The goroutine calls updateGitHubMetrics and goes on when it has returned.
ServeCallReturned == Returned

\* for range time.Tick(interval): the ticker is created when the range
\* statement is first reached, after the initial refresh.
TickerAtRange(t) == IF t = "none" THEN "empty" ELSE t

\* updateGitHubMetrics has returned to the goroutine: an error is logged and
\* the goroutine is at the range over the ticker.
serveUpdated ==
    /\ mainPc = "serve:update"
    /\ ServeCallReturned
    /\ orch' = "idle"
    /\ mainPc' = ServeAfterUpdate(result)
    /\ logged' = Logged(logged, result)
    /\ ticker' = TickerAtRange(ticker)
    /\ UNCHANGED << src, sink, result, g, repoGroup, pc, ret, page, allRepos, repos,
                    latestRuns, written, firstFailed, args, pushI, pushErr, pushes,
                    outputs, cycles >>

\* The sources a cycle of the whole program meets.
MainSources == {s \in CycleSources(RepoListings({FALSE})) : Len(s.repos) <= 1}

\* The ticker fires, whatever the goroutine is doing: the tick is put in the
\* channel, which holds one tick (a tick that finds it full is dropped).
tickerFires ==
    /\ ticker = "empty"
    /\ ticker' = "full"
    /\ UNCHANGED << src, sink, mainPc, args, pushI, pushErr, pushes, outputs, cycles,
                    logged >>
    /\ UNCHANGED cycleVars

\* A tick is received; the source may have changed since the last cycle.
serveTick ==
    /\ mainPc = "serve:tick"
    /\ ticker = "full"
    /\ cycles < MaxCycles
    /\ mainPc' = "serve:update"
    /\ ticker' = "empty"
    /\ src' \in MainSources
    /\ UNCHANGED << sink, args, pushI, pushErr, pushes, outputs, cycles, logged >>
    /\ UNCHANGED cycleVars

MainNext ==
    \/ generateUpdated
    \/ generateOutput
    \/ generatePush
    \/ generatePushLoop
    \/ serveUpdated
    \/ tickerFires
    \/ serveTick

Next == CycleNext \/ MainNext

GenerateArgs ==
    [mode : {"generate"}, output : {"", "-", "metrics.prom"}, pushgateway : BOOLEAN,
     retries : 0..MaxRetries, tailscale : BOOLEAN]
ServeArgs ==
    [mode : {"serve"}, output : {""}, pushgateway : {FALSE}, retries : {1},
     tailscale : {FALSE}]

\* The program at its first call of updateGitHubMetrics, in either mode.
Init ==
    \E a \in GenerateArgs \cup ServeArgs, s \in MainSources :
        InitAt(IF a.mode = "generate" THEN "generate:update" ELSE "serve:update", a, s)

Spec == Init /\ [][Next]_vars

(***************************************************************************)
(* Properties of one refresh cycle.                                        *)
(***************************************************************************)
Failed(t) == ret[t] \notin {Nil, Pending}
\* fetchUserRepos has returned a list.
ReposFetched == pc["repos"] \in {"wait", "done"} /\ ret["repos"].label # "fetching repos"
InSink(samples) == \A i \in DOMAIN samples : samples[i] \in sink
OnlyNotificationsDown ==
    /\ src.notifFail /\ src.issueFailAt = 0 /\ src.failPage = 0
    /\ \A r \in RepoNames : src.wfFailAt[r] = 0
OnlyWorkflowsDown ==
    ~src.notifFail /\ src.issueFailAt = 0 /\ src.failPage = 0

\* C1: when only the Notification Collector's call fails at the source, the
\* cycle ends Failed and the Issue/PR Collector, not cancelled, has run to
\* completion and its issue-count samples are in the sink, for every
\* interleaving.
C1_SiblingsNotCancelled ==
    (Returned /\ OnlyNotificationsDown) =>
        /\ orch = "failed"
        /\ ret["issue"] = Nil
        /\ written["issue"] = IssueSamples(src.nodes)
        /\ InSink(IssueSamples(src.nodes))

\* C2: when the top-level calls all succeed, every repository task whose two
\* listing calls the source answers has written its workflow samples by the
\* end of the cycle, whatever happens to the other repositories' tasks.
C2_RepoTasksNotCancelled ==
    (Returned /\ OnlyWorkflowsDown) =>
        \A r \in WorkflowTaskRepos(src.repos) :
            src.wfFailAt[r] = 0 =>
                /\ ret[r] = Nil
                /\ written[r] = WorkflowRunSamples(r, src.workflows[r],
                                                   LatestRuns(ListedRuns(src.runs[r])))

\* C3: when updateGitHubMetrics has returned, every task of the cycle, top
\* level or nested, has finished or was never started: none has a call or a
\* write left to do.
C3_ReturnsAfterAllTasks ==
    Returned => \A t \in Tasks : pc[t] \in {"none", "done"}

C3_Witness ==
    /\ orch = "failed"
    /\ pc["o/a"] = "done" /\ pc["o/b"] = "done" /\ pc["count"] = "done"
    /\ Failed("o/a") /\ ret["o/b"] = Nil

\* C4: the cycle returns a non-nil error (Failed) if and only if some task of
\* the cycle, top-level or nested, returned an error; nil (Completed) exactly
\* when every task that ran returned nil.
C4_FailedIffSomeTaskFailed ==
    Returned =>
        /\ (orch = "failed") = (result # Nil)
        /\ (result # Nil) = (\E t \in Tasks : Failed(t))
        /\ (orch = "completed") = (\A t \in Tasks : ret[t] \in {Nil, Pending})

C4_Witness ==
    /\ orch = "failed"
    /\ ret["notifications"] = Nil /\ ret["issue"] = Nil
    /\ Failed("o/b") /\ ret["o/a"] = Nil

\* C5 as stated: a Failed cycle returns the error of the task that failed
\* first among all tasks, top-level or nested.
C5_FirstErrorOfAllTasks ==
    orch = "failed" => result = firstFailed.any

\* C5 amended: a Failed cycle returns the error of the top-level task that
\* returned an error first; a workflow task's error is returned only as the
\* repo pipeline's error, and then it is the first error among the nested
\* tasks.
C5_FirstErrorPerGroup ==
    orch = "failed" =>
        /\ result = firstFailed.top
        /\ (result.label = "workflow metrics for" => result = firstFailed.nested)

C5_Witness ==
    /\ orch = "failed"
    /\ firstFailed.any.label = "workflow metrics for"
    /\ result.label = "notifications metrics"

\* C7 as stated: the list fetchUserRepos returns holds no archived
\* repository.
C7_NoArchivedReturned ==
    ReposFetched => \A i \in DOMAIN repos : ~repos[i].archived

\* C7 amended: the list fetchUserRepos returns holds every repository the
\* source serves, the archived ones included; the archived ones are left out
\* only where the workflow tasks are started.
C7_ArchivedReturnedNotCollected ==
    ReposFetched =>
        /\ \A i \in DOMAIN src.repos :
              src.repos[i].archived => \E j \in DOMAIN repos : repos[j] = src.repos[i]
        /\ \A i \in DOMAIN repos : repos[i].archived => pc[repos[i].name] = "none"

C7_Witness ==
    /\ ReposFetched
    /\ Len(repos) = 2 /\ ~repos[1].archived /\ repos[2].archived
    /\ pc["o/a"] = "done" /\ pc["o/b"] = "none"

\* C8: fetchUserRepos requests pages until the source reports no next page
\* and then returns the whole listing; if a page request fails it returns
\* an error and no list, no nested task is started and no workflow sample is
\* written in the cycle.
C8_AllOrNothing ==
    /\ ReposFetched => repos = src.repos
    /\ ret["repos"].label = "fetching repos" =>
          /\ repos = <<>>
          /\ \A t \in NestedTasks : pc[t] = "none" /\ written[t] = <<>>

C8_Witness ==
    /\ Returned
    /\ ret["repos"] = Wrap("fetching repos", "", "fetch failed")
    /\ allRepos # <<>>


(***************************************************************************)
(* Properties of generate mode.                                            *)
(***************************************************************************)
\* C6: in generate mode with a Pushgateway URL and retries >= 1, a process
\* that ends without a fatal error after a successful refresh has made at
\* least one push attempt, and one of its attempts succeeded.
C6_PushedBeforeExit ==
    (mainPc = "exit" /\ args.mode = "generate" /\ args.pushgateway /\ args.retries >= 1) =>
        /\ pushes # <<>>
        /\ \E i \in DOMAIN pushes : pushes[i]


(***************************************************************************)
(* Properties of the Workflow Collector.                                   *)
(***************************************************************************)
Range(seq) == {seq[i] : i \in DOMAIN seq}
MaxOf(S) == CHOOSE m \in S : \A x \in S : x <= m
\* The run numbers of workflow w among the runs of a listing response.
NumbersOf(listed, w) ==
    {listed[i].runNumber : i \in {j \in DOMAIN listed : listed[j].workflowID = w}}
Scanned(r) == pc[r] \in {"workflows", "done"} /\ ret[r] \in {Pending, Nil}
Collected(r) == pc[r] = "done" /\ ret[r] = Nil
ConclusionSamplesOf(s, r, name) ==
    {x \in s : /\ x.metric = "github_workflow_run_conclusion"
               /\ x.labels[1] = r /\ x.labels[2] = name}

\* C9: for every run listing the source answers with, in whatever order its
\* runs come, the run retained for a workflow identifier is one of that
\* workflow's listed runs and has the greatest run number among them (a
\* workflow without listed runs retains none), and the collector sets
\* github_workflow_run_number of every listed workflow that has a retained
\* run to that number.
C9_LatestRunIsMaximum ==
    \A r \in RepoNames :
        LET listed == ListedRuns(src.runs[r])
            latest == latestRuns[r]
        IN  /\ Scanned(r) =>
                \A w \in WorkflowIDs :
                    /\ (w \in DOMAIN latest) = (NumbersOf(listed, w) # {})
                    /\ w \in DOMAIN latest =>
                          /\ latest[w] \in Range(listed)
                          /\ latest[w].workflowID = w
                          /\ latest[w].runNumber = MaxOf(NumbersOf(listed, w))
            /\ Collected(r) =>
                \A k \in DOMAIN src.workflows[r] :
                    LET workflow == src.workflows[r][k]
                    IN  NumbersOf(listed, workflow.id) # {} =>
                            Sample("github_workflow_run_number", <<r, workflow.name>>,
                                   MaxOf(NumbersOf(listed, workflow.id)))
                                \in Range(written[r])

\* Runs numbered 3, 7, 5 of the workflow named Lint: 7 is retained and set.
C9_Witness ==
    /\ Collected(TheRepo)
    /\ src.workflows[TheRepo] = <<Workflow(1, "CI"), Workflow(2, "Lint")>>
    /\ Len(src.runs[TheRepo]) = 3
    /\ \A i \in 1..3 : src.runs[TheRepo][i].workflowID = 2
    /\ src.runs[TheRepo][1].runNumber = 3
    /\ src.runs[TheRepo][2].runNumber = 7
    /\ src.runs[TheRepo][3].runNumber = 5
    /\ latestRuns[TheRepo][2].runNumber = 7
    /\ Sample("github_workflow_run_number", <<TheRepo, "Lint">>, 7) \in sink

\* C10: for every listed workflow with a retained latest run the collector
\* writes, for each of the nine conclusion values, the sample of that value
\* with 1 if it is the latest run's conclusion and 0 otherwise; the registry
\* then holds nine conclusion samples for the (repo, workflow name) pair and,
\* when the latest runs' conclusions are among the nine, exactly one of them
\* is 1 and eight are 0.
C10_OneHotConclusion ==
    \A r \in RepoNames :
        Collected(r) =>
            \A k \in DOMAIN src.workflows[r] :
                LET workflow == src.workflows[r][k]
                    inSink == ConclusionSamplesOf(sink, r, workflow.name)
                IN  workflow.id \in DOMAIN latestRuns[r] =>
                        /\ \A c \in DOMAIN Conclusions :
                              Sample("github_workflow_run_conclusion",
                                     <<r, workflow.name, Conclusions[c]>>,
                                     IF Conclusions[c] = latestRuns[r][workflow.id].conclusion
                                     THEN 1 ELSE 0) \in Range(written[r])
                        /\ {x.labels[3] : x \in inSink} = Range(Conclusions)
                        /\ Cardinality(inSink) = 9
                        /\ (\A w \in DOMAIN latestRuns[r] :
                                latestRuns[r][w].conclusion \in Range(Conclusions)) =>
                              /\ Cardinality({x \in inSink : x.value = 1}) = 1
                              /\ Cardinality({x \in inSink : x.value = 0}) = 8

\* A latest run with conclusion success: success is 1, failure is 0.
C10_Witness ==
    /\ Collected(TheRepo)
    /\ src.workflows[TheRepo] = <<Workflow(1, "CI"), Workflow(2, "Lint")>>
    /\ 1 \in DOMAIN latestRuns[TheRepo]
    /\ latestRuns[TheRepo][1].conclusion = "success"
    /\ Sample("github_workflow_run_conclusion", <<TheRepo, "CI", "success">>, 1) \in sink
    /\ Sample("github_workflow_run_conclusion", <<TheRepo, "CI", "failure">>, 0) \in sink
    /\ Cardinality({x \in ConclusionSamplesOf(sink, TheRepo, "CI") : x.value = 0}) = 8

\* The listed workflows of a repository that have a run in the run listing.
WithRuns(r) ==
    {k \in DOMAIN src.workflows[r] :
        NumbersOf(ListedRuns(src.runs[r]), src.workflows[r][k].id) # {}}
WorkflowMetrics == {"github_workflow_run_number", "github_workflow_run_conclusion"}

\* C11: a workflow that is in the workflow listing but has no completed run
\* in the run listing gets no sample, not even zeros: the collector's writes
\* are the ten samples of each listed workflow that has a listed run and
\* nothing else, so every sample it writes carries the name of a workflow
\* with a listed run, and when no listed workflow has one it writes nothing.
C11_NoRunNoSample ==
    \A r \in RepoNames :
        Collected(r) =>
            /\ Len(written[r]) = 10 * Cardinality(WithRuns(r))
            /\ \A i \in DOMAIN written[r] :
                  /\ written[r][i].metric \in WorkflowMetrics
                  /\ \E k \in WithRuns(r) :
                        written[r][i].labels[2] = src.workflows[r][k].name
            /\ \A k \in DOMAIN src.workflows[r] \ WithRuns(r) :
                  (\A j \in WithRuns(r) :
                      src.workflows[r][j].name # src.workflows[r][k].name) =>
                    ~\E x \in sink :
                        /\ x.metric \in WorkflowMetrics
                        /\ x.labels[1] = r
                        /\ x.labels[2] = src.workflows[r][k].name

\* Lint is listed, every listed run is a run of CI: CI is written, Lint is not.
C11_Witness ==
    /\ Collected(TheRepo)
    /\ src.workflows[TheRepo] = <<Workflow(1, "CI"), Workflow(2, "Lint")>>
    /\ Len(src.runs[TheRepo]) = 2
    /\ \A i \in 1..2 : src.runs[TheRepo][i].workflowID = 1
    /\ Sample("github_workflow_run_number", <<TheRepo, "CI">>,
              latestRuns[TheRepo][1].runNumber) \in sink
    /\ ~\E x \in sink : x.metric \in WorkflowMetrics /\ x.labels[2] = "Lint"

(***************************************************************************)
(* Properties of the Issue/PR Collector.                                   *)
(***************************************************************************)
IssueCollected == pc["issue"] = "done" /\ ret["issue"] = Nil
NodeNames == {src.nodes[i].nameWithOwner : i \in DOMAIN src.nodes}
IssueSamplesOf(s, name) ==
    {x \in s : x.metric = "github_issue_count" /\ x.labels[1] = name}

\* C12: a successful invocation of the Issue/PR Collector writes, for every
\* repository node of the batched response, exactly four github_issue_count
\* samples keyed by the node's full name: (issue, open), (issue, closed),
\* (pull, open), (pull, closed) with the node's four counts; it writes no
\* sample for a repository that is absent from the response.
C12_FourSamplesPerNode ==
    IssueCollected =>
        /\ \A i \in DOMAIN src.nodes :
              LET node == src.nodes[i]
                  name == node.nameWithOwner
              IN  /\ IssueSamplesOf(Range(written["issue"]), name) =
                        { Sample("github_issue_count", <<name, "issue", "open">>, node.openIssues),
                          Sample("github_issue_count", <<name, "issue", "closed">>, node.closedIssues),
                          Sample("github_issue_count", <<name, "pull", "open">>, node.openPulls),
                          Sample("github_issue_count", <<name, "pull", "closed">>, node.closedPulls) }
                  /\ IssueSamplesOf(sink, name) = IssueSamplesOf(Range(written["issue"]), name)
                  /\ Cardinality(IssueSamplesOf(sink, name)) = 4
        /\ Len(written["issue"]) = 4 * Len(src.nodes)
        /\ \A r \in RepoNames \ NodeNames : IssueSamplesOf(sink, r) = {}

\* Two repositories listed, the second archived and so absent from the
\* response: four samples for the first, none for the second.
C12_Witness ==
    /\ IssueCollected
    /\ Len(src.repos) = 2
    /\ NodeNames = {RepoName(1)}
    /\ Sample("github_issue_count", <<RepoName(1), "pull", "closed">>, 2) \in sink
    /\ IssueSamplesOf(sink, RepoName(2)) = {}

(***************************************************************************)
(* Serve mode on its own: the goroutine of main's serve branch, which      *)
(* refreshes once and then at every tick.  The goroutine is scheduled      *)
(* fairly, the ticker keeps ticking and every call to the source returns.  *)
(***************************************************************************)
InitServe ==
    \E a \in ServeArgs, s \in MainSources : InitAt("serve:update", a, s)

ServeNext ==
    \/ CycleNext
    \/ serveUpdated
    \/ tickerFires
    \/ serveTick

SpecServe ==
    /\ InitServe
    /\ [][ServeNext]_vars
    /\ WF_vars(CycleNext)
    /\ WF_vars(serveUpdated)
    /\ WF_vars(tickerFires)
    /\ WF_vars(serveTick)

\* C13: in serve mode a Failed refresh cycle is not fatal: the goroutine
\* never leaves its update/tick loop, the return of a Failed cycle logs one
\* error line and leads to the wait for the next tick, and every Failed
\* cycle (short of the last cycle followed) is eventually followed by the
\* start of another cycle.
C13_FailedCycleContinues ==
    /\ [](mainPc \in {"serve:update", "serve:tick"})
    /\ [][(orch = "failed" /\ orch' # orch) =>
            (mainPc' = "serve:tick" /\ logged' = logged + 1)]_vars
    /\ \A n \in 1..(MaxCycles - 1) :
          (orch = "failed" /\ cycles = n) ~> (orch = "running" /\ cycles = n + 1)

\* A second cycle running after a first one that failed and was logged.
C13_Witness ==
    /\ args.mode = "serve"
    /\ cycles = 2
    /\ orch = "running"
    /\ logged = 1

(***************************************************************************)
(* Properties of main.                                                     *)
(***************************************************************************)
\* C14: in generate mode a refresh cycle that ends Failed is fatal: once it
\* has returned its error, main is at its fatal exit with the error logged,
\* and nothing has been or will be written to stdout, to the output file or
\* pushed to the Pushgateway, whatever the collectors wrote to the sink.
C14_FailedCycleIsFatal ==
    (args.mode = "generate" /\ result \notin {Nil, Pending}) =>
        /\ mainPc \in {"generate:update", "fatal"}
        /\ orch = "idle" => (mainPc = "fatal" /\ logged = 1)
        /\ outputs = {}
        /\ pushes = <<>>

\* A Failed cycle whose collectors wrote samples, with an output file and a
\* Pushgateway configured: main has ended without either.
C14_Witness ==
    /\ args.mode = "generate"
    /\ args.output = "metrics.prom"
    /\ args.pushgateway
    /\ args.retries = MaxRetries
    /\ result \notin {Nil, Pending}
    /\ mainPc = "fatal"
    /\ sink # {}
    /\ outputs = {}
    /\ pushes = <<>>

(***************************************************************************)
(* Properties of the sink.                                                 *)
(***************************************************************************)
\* The gauges registered with the registry and their label dimensions.
Registry ==
    [ github_repo_count |-> <<"owner", "visibility", "archived">>,
      github_issue_count |-> <<"github_repo", "type", "state">>,
      github_notification_count |-> <<"unread">>,
      github_workflow_run_number |-> <<"github_repo", "workflow_name">>,
      github_workflow_run_conclusion |->
          <<"github_repo", "workflow_name", "github_workflow_run_conclusion">> ]

\* The four metrics of the catalog.
CataloguedMetrics ==
    {"github_issue_count", "github_notification_count",
     "github_workflow_run_number", "github_workflow_run_conclusion"}

AllWritten == UNION {Range(written[t]) : t \in Tasks}
HasDeclaredLabels(x) ==
    /\ x.metric \in DOMAIN Registry
    /\ Len(x.labels) = Len(Registry[x.metric])

\* C15 as stated: every sample written during a refresh cycle belongs to one
\* of the four catalogued metrics and carries exactly that metric's label
\* dimensions.
C15_OnlyCataloguedMetrics ==
    \A x \in AllWritten \cup sink :
        x.metric \in CataloguedMetrics /\ HasDeclaredLabels(x)

\* C15, amended: every sample written during a refresh cycle belongs to one
\* of the five registered metrics, the four catalogued ones and
\* github_repo_count (owner, visibility, archived), and carries exactly the
\* label dimensions registered for that metric; the samples outside the
\* catalog are those of github_repo_count, written by the repo count task.
C15_OnlyRegisteredMetrics ==
    /\ \A x \in AllWritten \cup sink : HasDeclaredLabels(x)
    /\ \A t \in Tasks : \A x \in Range(written[t]) :
          x.metric \notin CataloguedMetrics =>
              (t = "count" /\ x.metric = "github_repo_count")

\* A cycle in which every collector has written: all five metrics are in
\* the sink.
C15_Witness ==
    /\ orch = "completed"
    /\ {x.metric : x \in sink} = DOMAIN Registry
    /\ \E x \in Range(written["count"]) :
          x.metric = "github_repo_count" /\ x.labels = <<"o", "public", "false">>

KeyOf(x) == <<x.metric, x.labels>>
Keys(s) == {KeyOf(x) : x \in s}
\* The samples written by the step, if it is a collector's writing step.
WrittenByStep ==
    UNION {Range(written'[t]) : t \in {u \in Tasks : written'[u] # written[u]}}

\* C16: no step of the process removes a (metric, label-set) key from the
\* sink: every key of the sink is still a key after the step, the sink holds
\* one sample per key, and a key keeps its value unless the step is a
\* collector's write of a sample with that key; so across cycles the key set
\* never shrinks and the keys of a repository or workflow that is gone from
\* the source keep their last value.
C16_KeysNeverRemoved ==
    [][ /\ Keys(sink) \subseteq Keys(sink')
        /\ Cardinality(Keys(sink')) = Cardinality(sink')
        /\ \A x \in sink : x \in sink' \/ \E y \in WrittenByStep : KeyOf(y) = KeyOf(x)
      ]_vars

\* The second cycle has completed on a source without repositories: the
\* samples of the first cycle's repository are still in the sink.
C16_Witness ==
    /\ cycles = 2
    /\ orch = "completed"
    /\ src.repos = <<>>
    /\ Sample("github_workflow_run_number", <<RepoName(1), "CI">>, 5) \in sink
    /\ Sample("github_issue_count", <<RepoName(1), "issue", "open">>, 3) \in sink
    /\ Sample("github_repo_count", <<"o", "public", "false">>, 1) \in sink

(***************************************************************************)
(* Properties of the Workflow Collector's run listing.                     *)
(***************************************************************************)
\* C17: the Workflow Collector follows the pagination of the completed-run
\* listing: once the runs are scanned, a workflow has a retained run exactly
\* when it has a completed run on some page at the source, and the retained
\* run's number is the maximum over the runs of all pages.
C17_AllPagesReduced ==
    \A r \in RepoNames :
        Scanned(r) =>
            \A w \in WorkflowIDs :
                /\ (w \in DOMAIN latestRuns[r]) = (NumbersOf(src.runs[r], w) # {})
                /\ w \in DOMAIN latestRuns[r] =>
                      latestRuns[r][w].runNumber = MaxOf(NumbersOf(src.runs[r], w))

(***************************************************************************)
(* The Repo Enumerator against a source that serves the repositories in    *)
(* any order: fetchUserRepos asks for sort=full_name, direction=asc and    *)
(* takes the pages as they come.                                           *)
(***************************************************************************)
InjectiveSeqs(S, n) ==
    {q \in [1..n -> S] : \A i, j \in 1..n : i # j => q[i] # q[j]}
RepoListingsInAnyOrder ==
    UNION { { [i \in 1..n |-> [name |-> names[i], archived |-> a[i], private |-> FALSE]] :
                names \in InjectiveSeqs(RepoNames, n), a \in [1..n -> BOOLEAN] } :
            n \in 0..MaxRepos }
\* Only the page requests of the enumerator may fail.
EnumeratorSources(listings) ==
    {s \in CycleSources(listings) :
        /\ ~s.notifFail /\ s.issueFailAt = 0
        /\ \A r \in RepoNames : s.wfFailAt[r] = 0}

InitRepos ==
    \E s \in EnumeratorSources(RepoListingsInAnyOrder) : InitAt("generate:update", NoArgs, s)

SpecRepos == InitRepos /\ [][CycleNext]_vars

NameIndex(name) == CHOOSE i \in DOMAIN AllRepoNames : AllRepoNames[i] = name
SortedByFullName(rs) ==
    \A i, j \in DOMAIN rs : i < j => NameIndex(rs[i].name) < NameIndex(rs[j].name)

\* C18 as stated: whatever the order in which the source returns the
\* repositories, the list fetchUserRepos returns is sorted by full name
\* ascending.
C18_AlwaysSorted == ReposFetched => SortedByFullName(repos)

\* C18, amended: the list fetchUserRepos returns is the source's pages
\* concatenated in page order, every repository in the position the source
\* served it; it is sorted by full name ascending exactly when the source
\* served the repositories in that order.
C18_SourceOrderKept ==
    ReposFetched =>
        /\ repos = src.repos
        /\ SortedByFullName(repos) = SortedByFullName(src.repos)

\* The source serves the second name on the first page: the list returned
\* has it first.
C18_Witness ==
    /\ ReposFetched
    /\ Len(repos) = 2
    /\ repos[1].name = RepoName(2)
    /\ repos[2].name = RepoName(1)
    /\ ~SortedByFullName(repos)

(***************************************************************************)
(* Properties of the launch of the Workflow Collector tasks.               *)
(***************************************************************************)
WorkflowSamplesOf(s, name) ==
    {x \in s : x.metric \in WorkflowMetrics /\ x.labels[1] = name}
Launched(r) == pc[r] # "none"

\* C19: before the enumeration has returned a list no Workflow Collector
\* task exists; once it has, there is a task for each non-archived
\* repository of the list and for nothing else, each task reads and writes
\* for its own repository only and, when it succeeds, writes once; no task
\* is started and no workflow sample is written for an archived repository.
C19_OneTaskPerActiveRepo ==
    /\ ~ReposFetched =>
          \A r \in RepoNames : ~Launched(r) /\ written[r] = <<>>
    /\ ReposFetched =>
          /\ \A r \in RepoNames :
                Launched(r) = (\E i \in DOMAIN repos : repos[i].name = r /\ ~repos[i].archived)
          /\ \A i \in DOMAIN repos :
                repos[i].archived =>
                    /\ ~Launched(repos[i].name)
                    /\ WorkflowSamplesOf(sink, repos[i].name) = {}
    /\ \A r \in RepoNames :
          /\ \A x \in Range(written[r]) : x.metric \in WorkflowMetrics /\ x.labels[1] = r
          /\ Collected(r) =>
                /\ written[r] = WorkflowRunSamples(r, src.workflows[r], LatestRuns(ListedRuns(src.runs[r])))
                /\ WorkflowSamplesOf(sink, r) = Range(written[r])
          /\ WorkflowSamplesOf(sink, r) # {} => Collected(r)

\* Two non-archived repositories, each collected by its own task: the
\* sink holds the samples of both.
C19_Witness ==
    /\ ReposFetched
    /\ Len(repos) = 2
    /\ \A i \in 1..2 : ~repos[i].archived /\ Collected(repos[i].name)
    /\ Sample("github_workflow_run_number", <<RepoName(1), "CI">>, 5) \in sink
    /\ Sample("github_workflow_run_number", <<RepoName(2), "CI">>, 5) \in sink

(***************************************************************************)
(* Properties of the scan on runs of equal number.                         *)
(***************************************************************************)
\* The positions, in scan order, of the listed runs of workflow w that carry
\* its maximum run number.
MaxPositions(listed, w) ==
    {i \in DOMAIN listed :
        /\ listed[i].workflowID = w
        /\ listed[i].runNumber = MaxOf(NumbersOf(listed, w))}
FirstOf(S) == CHOOSE i \in S : \A j \in S : i <= j
LastOf(S) == CHOOSE i \in S : \A j \in S : j <= i
RetainedAt(r, pick(_)) ==
    LET listed == ListedRuns(src.runs[r])
    IN  /\ Scanned(r) =>
            \A w \in DOMAIN latestRuns[r] :
                latestRuns[r][w] = listed[pick(MaxPositions(listed, w))]
        /\ Collected(r) =>
            \A k \in DOMAIN src.workflows[r] :
                LET workflow == src.workflows[r][k]
                IN  workflow.id \in DOMAIN latestRuns[r] =>
                        Sample("github_workflow_run_conclusion",
                               <<r, workflow.name,
                                 listed[pick(MaxPositions(listed, workflow.id))].conclusion>>,
                               1) \in Range(written[r])

\* C20 as stated: among the runs of a workflow that share its maximum run
\* number the scan retains the last one in scan order, and the conclusion
\* sample set to 1 is the one of that run's conclusion.
C20_LastSeenWinsTies == \A r \in RepoNames : RetainedAt(r, LastOf)

\* C20, amended: among the runs of a workflow that share its maximum run
\* number the scan retains the first one in scan order (a later run replaces
\* the retained one only if its number is strictly greater), and the
\* conclusion sample set to 1 is the one of that first run's conclusion.
C20_FirstSeenWinsTies == \A r \in RepoNames : RetainedAt(r, FirstOf)

\* Two runs numbered 7 of workflow CI, a success then a failure: the success
\* is retained and encoded.
C20_Witness ==
    /\ Collected(TheRepo)
    /\ src.workflows[TheRepo] = <<Workflow(1, "CI"), Workflow(2, "Lint")>>
    /\ src.runs[TheRepo] = <<Run(1, 7, "success"), Run(1, 7, "failure")>>
    /\ latestRuns[TheRepo][1] = Run(1, 7, "success")
    /\ Sample("github_workflow_run_conclusion", <<TheRepo, "CI", "success">>, 1) \in sink
    /\ Sample("github_workflow_run_conclusion", <<TheRepo, "CI", "failure">>, 0) \in sink

(***************************************************************************)
(* Properties of the serve loop's scheduling.                              *)
(***************************************************************************)
TaskActive(t) == pc[t] \notin {"none", "done"}
CycleStarts == cycles' # cycles

\* C21: in serve mode at most one refresh cycle is running at any time.
\* While a cycle runs the goroutine is inside its call of
\* updateGitHubMetrics, and a task is active only while the cycle runs; a
\* cycle is started only when the previous call has returned with all of its
\* tasks finished, however many ticks fired meanwhile; and the sink changes
\* only in a step of the one running cycle.
C21_OneCycleAtATime ==
    /\ [](/\ (orch # "idle" => mainPc = "serve:update")
          /\ \A t \in Tasks : TaskActive(t) => orch = "running")
    /\ [][ /\ (CycleStarts =>
                /\ orch = "idle" /\ orch' = "running"
                /\ \A t \in Tasks : ~TaskActive(t)
                /\ (cycles > 0 => result # Pending)
                /\ sink' = sink)
           /\ (sink' # sink => (orch = "running" /\ orch' = "running" /\ ~CycleStarts))
          ]_vars

\* The ticker has fired while the second cycle is still running with a task
\* in flight: the tick waits in the channel.
C21_Witness ==
    /\ args.mode = "serve"
    /\ cycles = 2
    /\ orch = "running"
    /\ ticker = "full"
    /\ \E t \in Tasks : TaskActive(t)
    /\ \E t \in Tasks : written[t] # <<>>

(***************************************************************************)
(* Properties of the collectors' fetch-then-write order.                   *)
(***************************************************************************)
Collectors == {"notifications", "issue"} \cup RepoNames
\* The samples of the keys a collector writes.
SamplesOfCollector(t, s) ==
    CASE t = "notifications" -> {x \in s : x.metric = "github_notification_count"}
      [] t = "issue" -> {x \in s : x.metric = "github_issue_count"}
      [] OTHER -> WorkflowSamplesOf(s, t)

\* C22: a collector invocation writes only after all of its fetches: while
\* it has not returned and once it has returned an error it has written no
\* sample, what it has written it has written in the step in which it
\* returns nil, and the sink's samples of a collector's keys change only in
\* such a step; so a failed invocation leaves them as they were.
C22_FetchesBeforeWrites ==
    /\ [](\A t \in Collectors : written[t] # <<>> => (pc[t] = "done" /\ ret[t] = Nil))
    /\ [][\A t \in Collectors :
            /\ (written'[t] # written[t] /\ written'[t] # <<>>) =>
                  (ret[t] = Pending /\ ret'[t] = Nil)
            /\ SamplesOfCollector(t, sink') # SamplesOfCollector(t, sink) =>
                  (ret[t] = Pending /\ ret'[t] = Nil)
            /\ (ret[t] = Pending /\ ret'[t] \notin {Pending, Nil}) => sink' = sink
         ]_vars

\* In the second cycle the Workflow Collector of the repository has failed at
\* its second fetch and the Notification Collector at its only one: the sink
\* still holds what the first cycle wrote for them.
C22_Witness ==
    /\ cycles = 2
    /\ Failed("notifications") /\ src.notifFail
    /\ Failed(RepoName(1)) /\ src.wfFailAt[RepoName(1)] = 2
    /\ latestRuns[RepoName(1)] # EmptyMap
    /\ written[RepoName(1)] = <<>>
    /\ Sample("github_notification_count", <<"true">>, 2) \in sink
    /\ Sample("github_workflow_run_number", <<RepoName(1), "CI">>, 5) \in sink

====
